---- MODULE Spec2Model ----
(***************************************************************************)
(* State-machine model of the selection-bias pipeline:                     *)
(*   create_block_letter_s   (src/step4_create_block_letter.py)            *)
(*   create_masked_stipple   (src/step5_create_masked.py)                  *)
(*   create_statistics_meme, create_compact_meme   (src/create_meme.py)    *)
(*                                                                         *)
(* Numbers.  Intensities are floats in the code.  Here a float v is the    *)
(* integer v * ONE, with ONE = 2 * 255, so that every pixel byte n / 255   *)
(* and the values 0.3, 0.5 and 1.0 are all exact.  numpy arrays are        *)
(* objects on a heap (a sequence; an array's id is its index), so that     *)
(* copying, aliasing and in-place assignment are distinguishable.          *)
(***************************************************************************)
EXTENDS Integers, Sequences, FiniteSets, TLC

VARIABLES
    pc,               \* position in the running function, "done" or "raised"
    op,               \* the function that was called
    heap,             \* numpy arrays: id -> [shape, data]
    heap0,            \* the heap as it was when the function was called
    ret,              \* the returned array's id, None before a return
    err,              \* the exception that left the function, None if none
    \* create_masked_stipple
    stipple_img, mask_img, threshold, masked_stipple, mask_region,
    \* create_statistics_meme / create_compact_meme
    panels, output_path, fig, idx, files,
    \* create_block_letter_s
    height, width, font_size_ratio, img, font, base_font_size, path_i,
    text_width, text_height, letter_array,
    \* the environment of create_block_letter_s and what it did (history)
    strict_size, log, measured, drawn

vars == <<pc, op, heap, heap0, ret, err,
          stipple_img, mask_img, threshold, masked_stipple, mask_region,
          panels, output_path, fig, idx, files,
          height, width, font_size_ratio, img, font, base_font_size, path_i,
          text_width, text_height, letter_array,
          strict_size, log, measured, drawn>>

maskerVars == <<stipple_img, mask_img, threshold, masked_stipple, mask_region>>
memeVars == <<panels, output_path, fig, idx, files>>
letterVars == <<height, width, font_size_ratio, img, font, base_font_size, path_i,
                text_width, text_height, letter_array,
                strict_size, log, measured, drawn>>

None == "None"

\* array ids index the heap from 1; this id names no array
NoArray == Len(<<>>)

\* no exception has left the function
NoError == [type |-> "none", line |-> NoArray, shapes |-> <<>>]

\* nothing has been drawn yet
NotDrawn == [how |-> "none", font |-> None]

(***************************************************************************)
(* Bounds of the model.                                                    *)
(***************************************************************************)
\* largest height and width of an array or image
MaxDim == 3

(***************************************************************************)
(* Numbers and arrays.                                                     *)
(***************************************************************************)
\* the byte of a white pixel: color=255, and the divisor of the normalisation
White == 255

\* the float 1.0
ONE == 2 * White

\* the float 0.5, the default threshold
Half == ONE \div 2

\* the float 0.3
Gray == (3 * ONE) \div 10

\* the floats 0.0, 0.3, 0.5, 1.0 an input field's cells are drawn from
LevelSeq == <<0, Gray, Half, ONE>>

\* the thresholds tried: 0.0, 0.5, 1.0
Thresholds == {0, Half, ONE}

\* positions (row, column) of an h x w array, 0-based as in numpy
Idx(h, w) == (0 .. h - 1) \X (0 .. w - 1)

Shapes == (1 .. MaxDim) \X (1 .. MaxDim)

\* an input field: cell (i, j) holds level (a*i + b*j + c) mod 4; the family
\* holds the uniform fields, stripes and checkerboards over the four levels
PatternField(shape, a, b, c) ==
    [shape |-> shape,
     data  |-> [p \in Idx(shape[1], shape[2]) |->
                   LevelSeq[((a * p[1] + b * p[2] + c) % Len(LevelSeq)) + 1]]]

Fields(shape) ==
    {PatternField(shape, a, b, c) : a \in 0 .. 1, b \in 0 .. 1, c \in 0 .. Len(LevelSeq) - 1}

UniformField(shape, v) ==
    [shape |-> shape, data |-> [p \in Idx(shape[1], shape[2]) |-> v]]

Size(arr) == arr.shape[1] * arr.shape[2]

ValueError(line, shapes) == [type |-> "ValueError", line |-> line, shapes |-> shapes]

IndexError(line) == [type |-> "IndexError", line |-> line, shapes |-> <<>>]

(***************************************************************************)
(* create_masked_stipple(stipple_img, mask_img, threshold)                 *)
(***************************************************************************)
\* mutant: only the number of rows is compared
ShapesDifferRowsOnly(a, b) == a.shape[1] # b.shape[1]

\* stipple_img.shape != mask_img.shape
ShapesDiffer(a, b) == a.shape # b.shape

\* mutant: no copy is made, the name is bound to the caller's array
CopyAlias(hp, id) == <<hp, id>>

\* stipple_img.copy(): a new array object holding the same values
Copy(hp, id) == <<Append(hp, hp[id]), Len(hp) + 1>>

\* mutant: the comparison is <=
BelowOrEqual(m, t) == m <= t

\* mask_img < threshold, cell by cell
Below(m, t) == m < t

\* mutant: the masked cells are set to black
Blacken(v, masked) == IF masked THEN 0 ELSE v

\* masked_stipple[mask_region] = 1.0: a cell of the region becomes white
Whiten(v, masked) == IF masked THEN ONE ELSE v

\* the shape check; a mismatch raises ValueError naming both shapes
MS_CheckShape ==
    /\ pc = "ms_check"
    /\ IF ShapesDiffer(heap[stipple_img], heap[mask_img])
       THEN /\ err' = ValueError(44, <<heap[stipple_img].shape, heap[mask_img].shape>>)
            /\ pc' = "raised"
       ELSE /\ pc' = "ms_copy"
            /\ err' = err
    /\ UNCHANGED <<op, heap, heap0, ret, maskerVars, memeVars, letterVars>>

\* masked_stipple = stipple_img.copy()
MS_Copy ==
    /\ pc = "ms_copy"
    /\ heap' = Copy(heap, stipple_img)[1]
    /\ masked_stipple' = Copy(heap, stipple_img)[2]
    /\ pc' = "ms_region"
    /\ UNCHANGED <<op, heap0, ret, err, stipple_img, mask_img, threshold, mask_region,
                   memeVars, letterVars>>

\* mask_region = mask_img < threshold: a boolean array of the mask's shape
MS_Region ==
    /\ pc = "ms_region"
    /\ mask_region' = [shape |-> heap[mask_img].shape,
                       data  |-> [p \in DOMAIN heap[mask_img].data |->
                                     Below(heap[mask_img].data[p], threshold)]]
    /\ pc' = "ms_assign"
    /\ UNCHANGED <<op, heap, heap0, ret, err, stipple_img, mask_img, threshold,
                   masked_stipple, memeVars, letterVars>>

\* masked_stipple[mask_region] = 1.0: written into the array the name is bound
\* to; a boolean index of another shape raises IndexError
MS_Assign ==
    /\ pc = "ms_assign"
    /\ IF mask_region.shape # heap[masked_stipple].shape
       THEN /\ err' = IndexError(58)
            /\ pc' = "raised"
            /\ heap' = heap
       ELSE /\ heap' = [heap EXCEPT ![masked_stipple].data =
                           [p \in DOMAIN @ |-> Whiten(@[p], mask_region.data[p])]]
            /\ pc' = "ms_stats"
            /\ err' = err
    /\ UNCHANGED <<op, heap0, ret, maskerVars, memeVars, letterVars>>

\* the counts and the report: numpy integer division by zero gives nan with a
\* warning, not an exception, so nothing here changes the state
MS_Stats ==
    /\ pc = "ms_stats"
    /\ pc' = "ms_return"
    /\ UNCHANGED <<op, heap, heap0, ret, err, maskerVars, memeVars, letterVars>>

\* return masked_stipple
MS_Return ==
    /\ pc = "ms_return"
    /\ ret' = masked_stipple
    /\ pc' = "done"
    /\ UNCHANGED <<op, heap, heap0, err, maskerVars, memeVars, letterVars>>

(***************************************************************************)
(* create_statistics_meme and create_compact_meme                          *)
(***************************************************************************)
PanelTitles == <<"Reality", "Your Model", "Selection Bias", "Estimate">>

PanelShapes == [k \in DOMAIN panels |-> heap[panels[k]].shape]

\* len(set(shapes)) > 1
ShapesDisagree(shapes) == Cardinality({shapes[k] : k \in DOMAIN shapes}) > 1

\* create_statistics_meme: the validation, then the 1x4 figure
SM_Validate ==
    /\ pc = "sm_validate"
    /\ IF ShapesDisagree(PanelShapes)
       THEN /\ err' = ValueError(56, PanelShapes)
            /\ pc' = "raised"
            /\ UNCHANGED <<fig, idx>>
       ELSE /\ fig' = [layout |-> <<1, 4>>, shown |-> <<>>]
            /\ idx' = 1
            /\ pc' = "sm_panel"
            /\ err' = err
    /\ UNCHANGED <<op, heap, heap0, ret, maskerVars, panels, output_path, files, letterVars>>

\* one pass of the panel loop: imshow of the panel's image under its title
SM_Panel ==
    /\ pc = "sm_panel"
    /\ fig' = [fig EXCEPT !.shown = Append(@, <<PanelTitles[idx], panels[idx]>>)]
    /\ idx' = idx + 1
    /\ pc' = IF idx = Len(panels) THEN "sm_save" ELSE "sm_panel"
    /\ UNCHANGED <<op, heap, heap0, ret, err, maskerVars, panels, output_path, files,
                   letterVars>>

\* plt.savefig(output_path); plt.close(fig)
SM_Save ==
    /\ pc = "sm_save"
    /\ files' = files \cup {output_path}
    /\ fig' = None
    /\ pc' = "done"
    /\ UNCHANGED <<op, heap, heap0, ret, err, maskerVars, panels, output_path, idx,
                   letterVars>>

\* create_compact_meme: the 2x2 figure, with no check of the shapes before it
CM_Figure ==
    /\ pc = "cm_figure"
    /\ fig' = [layout |-> <<2, 2>>, shown |-> <<>>]
    /\ idx' = 1
    /\ pc' = "cm_panel"
    /\ UNCHANGED <<op, heap, heap0, ret, err, maskerVars, panels, output_path, files,
                   letterVars>>

CM_Panel ==
    /\ pc = "cm_panel"
    /\ fig' = [fig EXCEPT !.shown = Append(@, <<PanelTitles[idx], panels[idx]>>)]
    /\ idx' = idx + 1
    /\ pc' = IF idx = Len(panels) THEN "cm_save" ELSE "cm_panel"
    /\ UNCHANGED <<op, heap, heap0, ret, err, maskerVars, panels, output_path, files,
                   letterVars>>

CM_Save ==
    /\ pc = "cm_save"
    /\ files' = files \cup {output_path}
    /\ fig' = None
    /\ pc' = "done"
    /\ UNCHANGED <<op, heap, heap0, ret, err, maskerVars, panels, output_path, idx,
                   letterVars>>

(***************************************************************************)
(* The calls on given arrays.                                              *)
(***************************************************************************)
NoMasker ==
    /\ stipple_img = NoArray /\ mask_img = NoArray /\ threshold = None
    /\ masked_stipple = NoArray /\ mask_region = None

NoMeme ==
    /\ panels = <<>> /\ output_path = None /\ fig = None /\ idx = 0 /\ files = {}

NoLetter ==
    /\ height = None /\ width = None /\ font_size_ratio = None /\ img = None
    /\ font = None /\ base_font_size = None /\ path_i = 0
    /\ text_width = None /\ text_height = None /\ letter_array = NoArray
    /\ strict_size = FALSE /\ log = <<>> /\ measured = None /\ drawn = NotDrawn

\* create_masked_stipple on two arrays of any two shapes, or on one array
\* passed as both arguments
InitMasked ==
    /\ op = "create_masked_stipple"
    /\ pc = "ms_check"
    /\ \E s1 \in Shapes, s2 \in Shapes :
         \E f1 \in Fields(s1), f2 \in Fields(s2), alias \in BOOLEAN :
           /\ heap = <<f1, f2>>
           /\ stipple_img = 1
           /\ mask_img = IF alias THEN 1 ELSE 2
    /\ threshold \in Thresholds
    /\ heap0 = heap
    /\ masked_stipple = NoArray /\ mask_region = None
    /\ ret = NoArray /\ err = NoError
    /\ NoMeme /\ NoLetter

\* either meme on four arrays of any four shapes
InitMeme ==
    /\ op \in {"create_statistics_meme", "create_compact_meme"}
    /\ pc = IF op = "create_statistics_meme" THEN "sm_validate" ELSE "cm_figure"
    /\ \E s \in [1 .. 4 -> Shapes] :
         heap = [k \in 1 .. 4 |-> UniformField(s[k], ONE)]
    /\ panels = <<1, 2, 3, 4>>
    /\ output_path = "meme.png"
    /\ fig = None /\ idx = 0 /\ files = {}
    /\ heap0 = heap
    /\ ret = NoArray /\ err = NoError
    /\ NoMasker /\ NoLetter

Init == InitMasked \/ InitMeme

Next ==
    \/ MS_CheckShape \/ MS_Copy \/ MS_Region \/ MS_Assign \/ MS_Stats \/ MS_Return
    \/ SM_Validate \/ SM_Panel \/ SM_Save
    \/ CM_Figure \/ CM_Panel \/ CM_Save

Spec == Init /\ [][Next]_vars

(***************************************************************************)
(* create_block_letter_s(height, width, letter, font_size_ratio)           *)
(*                                                                         *)
(* The environment decides, attempt by attempt, whether a font file loads  *)
(* and whether the default font loads, which text-measuring call the       *)
(* installed Pillow has, how large the glyph is and which pixels the       *)
(* rasteriser inks.  strict_size is the installed Pillow's rule for a font *)
(* size of 0: FreeTypeFont raises ValueError before it opens the file      *)
(* (Pillow 10.1 and later), or FreeType takes the size as 1 (earlier).     *)
(***************************************************************************)
font_paths ==
    <<"/System/Library/Fonts/Supplemental/Arial Bold.ttf",
      "/System/Library/Fonts/Supplemental/Arial.ttf",
      "/Library/Fonts/Arial Bold.ttf",
      "/System/Library/Fonts/Helvetica.ttc",
      "/usr/share/fonts/truetype/dejavu/DejaVuSans-Bold.ttf",
      "/usr/share/fonts/truetype/liberation/LiberationSans-Bold.ttf",
      "C:\\Windows\\Fonts\\arialbd.ttf",
      "C:\\Windows\\Fonts\\arial.ttf">>

DefaultFont == "load_default"

\* the heights and widths a call is made with: invalid ones and valid ones
DimRange == -1 .. MaxDim

\* font_size_ratio as a fraction: a degenerate 0.001 and the default 0.9
Ratios == {[n |-> 1, d |-> 1000], [n |-> 9, d |-> 10]}

\* the widths and heights a glyph's bounding box can have: none, smaller than
\* the image, the image's, larger than the image
GlyphSizes == 0 .. MaxDim + 1

\* the bytes a rasterised glyph leaves: ink, an antialiased edge, background
InkSeq == <<0, 128, White>>

Min(a, b) == IF a <= b THEN a ELSE b

Max(a, b) == IF a >= b THEN a ELSE b

\* int(n / d) for d > 0: Python's int() truncates towards zero
TruncInt(n, d) == IF n >= 0 THEN n \div d ELSE -((-n) \div d)

\* pixel positions (x, y) of a w x h image
Pix(w, h) == (0 .. w - 1) \X (0 .. h - 1)

\* mutant: the size is passed as (height, width)
NewImageSwapped(w, h) == [size |-> <<h, w>>, px |-> [p \in Pix(h, w) |-> White]]

\* Image.new('L', (width, height), color=255)
NewImage(w, h) == [size |-> <<w, h>>, px |-> [p \in Pix(w, h) |-> White]]

\* ImageFont.truetype(font_path, base_font_size): "ok", or the exception raised
Truetype(loadable, size, strict) ==
    IF strict /\ size <= 0 THEN "ValueError"
    ELSE IF loadable THEN "ok" ELSE "OSError"

\* mutant: the loop has no break
LoopNextNoBreak(i, loaded) == i + 1

\* the loop's next position: past the end after the break, else the next path
LoopNext(i, loaded) == IF loaded THEN Len(font_paths) + 1 ELSE i + 1

\* draw.text((x, y), letter, fill=0, font=font): the pixels of the glyph's box
\* that lie in the image are set by the rasteriser (pattern a, b, c); the rest
\* of the image is left as it is
DrawText(im, x, y, tw, th, a, b, c) ==
    [im EXCEPT !.px =
        [p \in DOMAIN @ |->
            IF /\ x <= p[1] /\ p[1] < x + tw
               /\ y <= p[2] /\ p[2] < y + th
            THEN InkSeq[((a * (p[1] - x) + b * (p[2] - y) + c) % Len(InkSeq)) + 1]
            ELSE @[p]]]

\* the pixels of the image inside the box [x0, y0, x1, y1], bounds included
BoxCells(im, x0, y0, x1, y1) ==
    {p \in DOMAIN im.px : x0 <= p[1] /\ p[1] <= x1 /\ y0 <= p[2] /\ p[2] <= y1}

\* fill=0 on a set of pixels
FillCells(im, cells) ==
    [im EXCEPT !.px = [p \in DOMAIN @ |-> IF p \in cells THEN 0 ELSE @[p]]]

s_width == TruncInt(width * 5, 10)

s_height == TruncInt(height * 7, 10)

s_x == (width - s_width) \div 2

s_y == (height - s_height) \div 2

thickness == Max(10, Min(width, height) \div 20)

\* the bounding box of the top arc, of the bottom arc, and the middle bar
TopArcBox == BoxCells(img, s_x, s_y, s_x + s_width, s_y + s_height \div 3)

BottomArcBox ==
    BoxCells(img, s_x, s_y + (2 * s_height) \div 3, s_x + s_width, s_y + s_height)

MiddleBar ==
    BoxCells(img, s_x + s_width \div 2 - thickness \div 2, s_y + s_height \div 4,
                  s_x + s_width \div 2 + thickness \div 2, s_y + (3 * s_height) \div 4)

\* the byte n as a float: n / 255.0
Normalize(n) == (n * ONE) \div White

\* np.array(img, dtype=np.float32) / 255.0: rows are the image's y, columns its x
ToArray(im) ==
    [shape |-> <<im.size[2], im.size[1]>>,
     data  |-> [p \in Idx(im.size[2], im.size[1]) |-> Normalize(im.px[<<p[2], p[1]>>])]]

\* mutant: the report takes no minimum or maximum
ReductionNeverRaises(arr) == FALSE

\* letter_array.min() / .max(): numpy raises ValueError on an array of size 0
ReductionRaises(arr) == Size(arr) = 0

\* the function's locals are gone once it has returned or raised
PopLetterFrame ==
    /\ img' = None /\ font' = None /\ base_font_size' = None /\ path_i' = 0
    /\ text_width' = None /\ text_height' = None /\ letter_array' = NoArray

\* Image.new and ImageDraw.Draw; Pillow raises ValueError for a negative width
\* or height and makes an empty image for a zero one.  Then the font size.
BL_NewImage ==
    /\ pc = "bl_new"
    /\ IF width < 0 \/ height < 0
       THEN /\ err' = ValueError(39, <<>>)
            /\ pc' = "raised"
            /\ UNCHANGED <<img, font, base_font_size, path_i>>
       ELSE /\ img' = NewImage(width, height)
            /\ font' = None
            /\ base_font_size' =
                   TruncInt(Min(height, width) * font_size_ratio.n, font_size_ratio.d)
            /\ path_i' = 1
            /\ pc' = "bl_fonts"
            /\ err' = err
    /\ UNCHANGED <<op, heap, heap0, ret, maskerVars, memeVars,
                   height, width, font_size_ratio, text_width, text_height, letter_array,
                   strict_size, log, measured, drawn>>

\* one pass of the loop over font_paths: OSError is caught and the loop goes
\* on, any other exception leaves the function
BL_TryFont ==
    /\ pc = "bl_fonts"
    /\ path_i <= Len(font_paths)
    /\ \E loadable \in BOOLEAN :
         LET outcome == Truetype(loadable, base_font_size, strict_size) IN
           /\ log' = Append(log, [source |-> font_paths[path_i], outcome |-> outcome])
           /\ IF outcome = "ValueError"
              THEN /\ err' = ValueError(64, <<>>)
                   /\ pc' = "raised"
                   /\ PopLetterFrame
              ELSE /\ font' = IF outcome = "ok" THEN font_paths[path_i] ELSE font
                   /\ path_i' = LoopNext(path_i, outcome = "ok")
                   /\ UNCHANGED <<pc, err, img, base_font_size, text_width, text_height,
                                  letter_array>>
    /\ UNCHANGED <<op, heap, heap0, ret, maskerVars, memeVars,
                   height, width, font_size_ratio, strict_size, measured, drawn>>

\* after the loop: ImageFont.load_default() if no font was found; any
\* exception of it is caught and leaves font None
BL_Default ==
    /\ pc = "bl_fonts"
    /\ path_i > Len(font_paths)
    /\ IF font = None
       THEN \E loaded \in BOOLEAN :
              /\ font' = IF loaded THEN DefaultFont ELSE None
              /\ log' = Append(log, [source |-> DefaultFont,
                                     outcome |-> IF loaded THEN "ok" ELSE "Exception"])
       ELSE UNCHANGED <<font, log>>
    /\ pc' = "bl_measure"
    /\ UNCHANGED <<op, heap, heap0, ret, err, maskerVars, memeVars,
                   height, width, font_size_ratio, img, base_font_size, path_i,
                   text_width, text_height, letter_array, strict_size, measured, drawn>>

\* the glyph's size: textbbox, textsize where Pillow has no textbbox, or the
\* fixed proportions when there is no font
BL_Measure ==
    /\ pc = "bl_measure"
    /\ IF font # None
       THEN /\ measured' \in {"textbbox", "textsize"}
            /\ text_width' \in GlyphSizes
            /\ text_height' \in GlyphSizes
       ELSE /\ measured' = "fixed"
            /\ text_width' = TruncInt(width * 6, 10)
            /\ text_height' = TruncInt(height * 8, 10)
    /\ pc' = "bl_draw"
    /\ UNCHANGED <<op, heap, heap0, ret, err, maskerVars, memeVars,
                   height, width, font_size_ratio, img, font, base_font_size, path_i,
                   letter_array, strict_size, log, drawn>>

\* the centring and the drawing: the glyph with the font, or the two arcs
\* (each inks some pixels of its bounding box) and the middle bar without
BL_Draw ==
    /\ pc = "bl_draw"
    /\ LET x == (width - text_width) \div 2
           y == (height - text_height) \div 2
       IN IF font # None
          THEN /\ \E a \in 0 .. 1, b \in 0 .. 1, c \in 0 .. Len(InkSeq) - 1 :
                    img' = DrawText(img, x, y, text_width, text_height, a, b, c)
               /\ drawn' = [how |-> "text", font |-> font]
          ELSE /\ \E top \in SUBSET TopArcBox, bottom \in SUBSET BottomArcBox :
                    img' = FillCells(img, top \cup bottom \cup MiddleBar)
               /\ drawn' = [how |-> "geometric", font |-> None]
    /\ pc' = "bl_array"
    /\ UNCHANGED <<op, heap, heap0, ret, err, maskerVars, memeVars,
                   height, width, font_size_ratio, font, base_font_size, path_i,
                   text_width, text_height, letter_array, strict_size, log, measured>>

\* letter_array = np.array(img, dtype=np.float32) / 255.0: a new array
BL_ToArray ==
    /\ pc = "bl_array"
    /\ heap' = Append(heap, ToArray(img))
    /\ letter_array' = Len(heap) + 1
    /\ pc' = "bl_stats"
    /\ UNCHANGED <<op, heap0, ret, err, maskerVars, memeVars,
                   height, width, font_size_ratio, img, font, base_font_size, path_i,
                   text_width, text_height, strict_size, log, measured, drawn>>

\* the report: shape, then min() and max(), then the counts
BL_Stats ==
    /\ pc = "bl_stats"
    /\ IF ReductionRaises(heap[letter_array])
       THEN /\ err' = ValueError(127, <<>>)
            /\ pc' = "raised"
            /\ PopLetterFrame
       ELSE /\ pc' = "bl_return"
            /\ UNCHANGED <<err, img, font, base_font_size, path_i, text_width, text_height,
                           letter_array>>
    /\ UNCHANGED <<op, heap, heap0, ret, maskerVars, memeVars,
                   height, width, font_size_ratio, strict_size, log, measured, drawn>>

\* return letter_array
BL_Return ==
    /\ pc = "bl_return"
    /\ ret' = letter_array
    /\ pc' = "done"
    /\ PopLetterFrame
    /\ UNCHANGED <<op, heap, heap0, err, maskerVars, memeVars,
                   height, width, font_size_ratio, strict_size, log, measured, drawn>>

(***************************************************************************)
(* The pipeline: a mask from create_block_letter_s, then                   *)
(* create_masked_stipple on a sample and that mask.                        *)
(***************************************************************************)
\* the samples a caller pairs with a mask: the pattern fields of the mask's
\* shape, and the uniform black and gray fields of every shape
Samples(shape) ==
    Fields(shape) \cup {UniformField(s, v) : s \in Shapes, v \in {0, Gray}}

E2E_Apply ==
    /\ pc = "done"
    /\ op = "create_block_letter_s"
    /\ ret # NoArray
    /\ \E sample \in Samples(heap[ret].shape) :
         /\ heap' = <<heap[ret], sample>>
         /\ heap0' = heap'
    /\ mask_img' = 1
    /\ stipple_img' = 2
    /\ threshold' \in Thresholds
    /\ op' = "create_masked_stipple"
    /\ pc' = "ms_check"
    /\ ret' = NoArray
    /\ height' = None /\ width' = None /\ font_size_ratio' = None
    /\ strict_size' = FALSE /\ log' = <<>> /\ measured' = None /\ drawn' = NotDrawn
    /\ UNCHANGED <<err, masked_stipple, mask_region, memeVars,
                   img, font, base_font_size, path_i, text_width, text_height,
                   letter_array>>

InitLetter ==
    /\ op = "create_block_letter_s"
    /\ pc = "bl_new"
    /\ height \in DimRange
    /\ width \in DimRange
    /\ font_size_ratio \in Ratios
    /\ strict_size \in BOOLEAN
    /\ img = None /\ font = None /\ base_font_size = None /\ path_i = 0
    /\ text_width = None /\ text_height = None /\ letter_array = NoArray
    /\ log = <<>> /\ measured = None /\ drawn = NotDrawn
    /\ heap = <<>> /\ heap0 = <<>>
    /\ ret = NoArray /\ err = NoError
    /\ NoMasker /\ NoMeme

NextPipeline ==
    \/ BL_NewImage \/ BL_TryFont \/ BL_Default \/ BL_Measure \/ BL_Draw
    \/ BL_ToArray \/ BL_Stats \/ BL_Return
    \/ E2E_Apply
    \/ MS_CheckShape \/ MS_Copy \/ MS_Region \/ MS_Assign \/ MS_Stats \/ MS_Return

SpecPipeline == InitLetter /\ [][NextPipeline]_vars

(***************************************************************************)
(* Properties of create_masked_stipple and the memes, under Spec.          *)
(***************************************************************************)
Masking == op = "create_masked_stipple"

Lettering == op = "create_block_letter_s"

sample0 == heap0[stipple_img]

mask0 == heap0[mask_img]

\* C1: for a sample and a mask of one shape, create_masked_stipple does not
\* raise and goes on until it returns, and the array it returns has the sample's shape and holds 1.0 where the mask is
\* strictly below the threshold and the sample's value everywhere else: a cell
\* whose mask value equals the threshold keeps its sample value.
C1_MaskedValues ==
    (Masking /\ sample0.shape = mask0.shape) =>
        /\ pc # "raised"
        /\ pc # "done" => ENABLED Next
        /\ pc = "done" =>
             /\ ret \in DOMAIN heap
             /\ heap[ret].shape = sample0.shape
             /\ \A p \in Idx(sample0.shape[1], sample0.shape[2]) :
                  heap[ret].data[p] =
                      IF mask0.data[p] < threshold THEN ONE ELSE sample0.data[p]

\* a returned call with a cell whose mask value equals the threshold and was
\* kept, and a cell that was masked
C1_Witness ==
    /\ Masking /\ pc = "done"
    /\ \E p \in DOMAIN mask0.data, q \in DOMAIN mask0.data :
         /\ mask0.data[p] = threshold
         /\ sample0.data[p] # ONE
         /\ heap[ret].data[p] = sample0.data[p]
         /\ mask0.data[q] < threshold
         /\ sample0.data[q] # ONE
         /\ heap[ret].data[q] = ONE

\* C2: with a sample and a mask of different shapes the call gets no further
\* than the shape check: it raises ValueError, the message carries both shapes,
\* and no array is made or returned.
C2_ShapeMismatchRaises ==
    (Masking /\ sample0.shape # mask0.shape) =>
        /\ pc \in {"ms_check", "raised"}
        /\ ret = NoArray
        /\ heap = heap0
        /\ pc = "raised" =>
             /\ err.type = "ValueError"
             /\ err.shapes = <<sample0.shape, mask0.shape>>

\* the call has raised for shapes that differ in their width alone
C2_Witness ==
    /\ Masking /\ pc = "raised"
    /\ sample0.shape[1] = mask0.shape[1]
    /\ sample0.shape[2] + 1 = mask0.shape[2]
    /\ err.shapes = <<sample0.shape, mask0.shape>>

\* C3: whatever the call does, the arrays the caller passed hold what they held
\* at the call, and the array returned is a new one, not the sample.
C3_InputsUnmodified ==
    Masking =>
        /\ \A id \in DOMAIN heap0 : heap[id] = heap0[id]
        /\ ret # NoArray => ret \notin DOMAIN heap0

\* a returned call that whitened a cell: the result differs from the sample
C3_Witness ==
    /\ Masking /\ pc = "done"
    /\ heap[ret] # sample0
    /\ heap[stipple_img] = sample0

\* the arrays an operation was called with
Inputs ==
    IF Masking THEN {stipple_img, mask_img} ELSE {panels[k] : k \in DOMAIN panels}

\* C8 (the claim as stated): each of the three operations, called with fields
\* that do not all have one shape, makes no array and writes no file, and does
\* not complete: it ends with an error.
C8_EveryOperationRejectsMismatch ==
    (Cardinality({heap0[id].shape : id \in Inputs}) > 1) =>
        /\ files = {}
        /\ heap = heap0
        /\ pc # "done"

(***************************************************************************)
(* Properties of create_block_letter_s and the pipeline, under             *)
(* SpecPipeline.                                                           *)
(***************************************************************************)
\* C4: a call with height <= 0 or width <= 0 never returns a mask; it goes on
\* until it raises, and what it raises is a ValueError (from Image.new for a
\* negative dimension; from the font loader or the report's min() for a zero).
C4_InvalidDimensionFails ==
    (Lettering /\ (height <= 0 \/ width <= 0)) =>
        /\ ret = NoArray
        /\ pc # "done"
        /\ pc = "raised" => err.type = "ValueError"
        /\ pc # "raised" => ENABLED NextPipeline

\* a call with height 0 that went through the whole function and raised in the
\* report
C4_Witness ==
    /\ Lettering /\ pc = "raised"
    /\ height = 0 /\ width > 0
    /\ err.line = 127
    /\ drawn.how # "none"

\* C5 (the claim as stated): a call with height > 0 and width > 0 never fails.
C5_ValidCallNeverFails ==
    (Lettering /\ height > 0 /\ width > 0) => pc # "raised"

\* C6: a mask that is returned has shape (height, width), with height and
\* width positive, and every value of it lies in [0, 1].
C6_ShapeAndRange ==
    (Lettering /\ pc = "done") =>
        /\ ret \in DOMAIN heap
        /\ height > 0 /\ width > 0
        /\ heap[ret].shape = <<height, width>>
        /\ DOMAIN heap[ret].data = Idx(height, width)
        /\ \A p \in DOMAIN heap[ret].data :
             0 <= heap[ret].data[p] /\ heap[ret].data[p] <= ONE

\* a mask narrower than high, drawn with a loaded font, with an inked cell, an
\* antialiased cell and a background cell
C6_Witness ==
    /\ Lettering /\ pc = "done"
    /\ height > width
    /\ drawn.how = "text" /\ drawn.font # DefaultFont
    /\ \E p \in DOMAIN heap[ret].data, q \in DOMAIN heap[ret].data,
          r \in DOMAIN heap[ret].data :
         /\ heap[ret].data[p] = 0
         /\ 0 < heap[ret].data[q] /\ heap[ret].data[q] < ONE
         /\ heap[ret].data[r] = ONE

\* C7 (the claim as stated): with height, width > 0 and a ratio that makes the
\* font size 0, the call does not raise, and what it returns has shape
\* (height, width).
C7_ZeroFontSizeNoCrash ==
    (/\ Lettering /\ height > 0 /\ width > 0
     /\ TruncInt(Min(height, width) * font_size_ratio.n, font_size_ratio.d) = 0) =>
        /\ pc # "raised"
        /\ pc = "done" => heap[ret].shape = <<height, width>>

\* C9: in the pipeline, for a sample with no cell equal to 1.0, the result has
\* as many cells equal to 1.0 as the mask has cells strictly below the
\* threshold, and every other cell holds its sample value; with a uniform 0.3
\* sample the result holds no value but 0.3 and 1.0, and holds both when the
\* mask has a cell below the threshold and a cell not below it.
C9_EndToEndCount ==
    (/\ Masking /\ pc = "done"
     /\ \A p \in DOMAIN sample0.data : sample0.data[p] # ONE) =>
        LET result == heap[ret].data
            whites == {p \in DOMAIN result : result[p] = ONE}
            below  == {p \in DOMAIN mask0.data : mask0.data[p] < threshold}
            values == {result[p] : p \in DOMAIN result}
        IN  /\ Cardinality(whites) = Cardinality(below)
            /\ \A p \in DOMAIN result \ whites : result[p] = sample0.data[p]
            /\ (\A p \in DOMAIN sample0.data : sample0.data[p] = Gray) =>
                 /\ values \subseteq {Gray, ONE}
                 /\ (below # {} /\ below # DOMAIN mask0.data) => values = {Gray, ONE}

\* a uniform 0.3 sample under a generated mask with threshold 0.5: some cells
\* were whitened and some kept
C9_Witness ==
    /\ Masking /\ pc = "done"
    /\ threshold = Half
    /\ \A p \in DOMAIN sample0.data : sample0.data[p] = Gray
    /\ {heap[ret].data[p] : p \in DOMAIN heap[ret].data} = {Gray, ONE}
    /\ \E p \in DOMAIN mask0.data : 0 < mask0.data[p] /\ mask0.data[p] < ONE

AttemptFailed(k) == log[k].outcome \notin {"ok"}

\* C10: the attempts are made in the order of font_paths, then the default
\* font; nothing is attempted after an attempt that succeeded; the default font
\* is attempted only after all the listed paths failed; the font used is the
\* one that loaded; and the fixed proportions and the geometric S are used only
\* when the default font failed too.
C10_OrderedFallback ==
    Lettering =>
        /\ Len(log) <= Len(font_paths) + 1
        /\ \A k \in DOMAIN log :
             /\ log[k].source = IF k <= Len(font_paths) THEN font_paths[k] ELSE DefaultFont
             /\ k < Len(log) => log[k].outcome = "OSError"
        /\ font # None =>
             /\ log # <<>>
             /\ log[Len(log)] = [source |-> font, outcome |-> "ok"]
        /\ drawn.how = "text" =>
             /\ log[Len(log)] = [source |-> drawn.font, outcome |-> "ok"]
             /\ measured # "fixed"
        /\ (drawn.how = "geometric" \/ measured = "fixed") =>
             /\ Len(log) = Len(font_paths) + 1
             /\ \A k \in DOMAIN log : AttemptFailed(k)

\* the third path loaded after the first two failed, and the glyph was drawn
\* with it
C10_Witness ==
    /\ Lettering
    /\ Len(log) = 3
    /\ drawn = [how |-> "text", font |-> font_paths[3]]

====
